---- MODULE Spec2Model ----
(***************************************************************************)
(* Model of the blog backend: the handlers of                              *)
(* backend/internal/handlers/blog.go over the blogs table, the model       *)
(* hooks of the Blog entity and the helpers of                             *)
(* backend/internal/models/utils.go.                                       *)
(*                                                                         *)
(* Strings are sequences of one-character strings, so that parsing,        *)
(* lower-casing, LIKE matching and slug generation are computed the way    *)
(* the code computes them.  A few non-printable characters are written as  *)
(* tokens: "NUL" (U+0000), "VT" (U+000B), "DEL" (U+007F).                  *)
(***************************************************************************)
EXTENDS Integers, Sequences, FiniteSets, TLC

\* ------------------------------------------------------------------------
\* Characters and strings
\* ------------------------------------------------------------------------

UpperSeq ==
  <<"A","B","C","D","E","F","G","H","I","J","K","L","M",
    "N","O","P","Q","R","S","T","U","V","W","X","Y","Z">>

LowerSeq ==
  <<"a","b","c","d","e","f","g","h","i","j","k","l","m",
    "n","o","p","q","r","s","t","u","v","w","x","y","z">>

DigitSeq == <<"0","1","2","3","4","5","6","7","8","9">>

Range(f) == { f[i] : i \in DOMAIN f }

Min(a, b) == IF a < b THEN a ELSE b

Max(a, b) == IF a > b THEN a ELSE b

\* unicode.IsSpace, restricted to the characters of the model
WhiteSpace == {" ", "\t", "\n", "VT", "\f", "\r"}

\* unicode.IsControl, restricted to the characters of the model
ControlChars == {"NUL", "\t", "\n", "VT", "\f", "\r", "DEL"}

\* strings.ToLower, one character
ToLowerChar(c) ==
  IF \E i \in DOMAIN UpperSeq : UpperSeq[i] = c
    THEN LowerSeq[CHOOSE i \in DOMAIN UpperSeq : UpperSeq[i] = c]
    ELSE c

\* strings.ToLower
ToLower(s) == [i \in 1..Len(s) |-> ToLowerChar(s[i])]

\* value of a decimal digit
DigitVal(c) == (CHOOSE i \in DOMAIN DigitSeq : DigitSeq[i] = c) - 1

IsDigit(c) == c \in Range(DigitSeq)

\* s[from:] in Go (from is 0-based)
Drop(s, n) == SubSeq(s, n + 1, Len(s))

\* s[:n] in Go
Take(s, n) == SubSeq(s, 1, n)

\* strings.Contains
Contains(s, sub) ==
  \E k \in 0..(Len(s) - Len(sub)) : SubSeq(s, k + 1, k + Len(sub)) = sub

\* strings.Trim(s, cutset) / strings.TrimSpace(s) for a set of characters
TrimSet(s, cut) ==
  IF \A i \in 1..Len(s) : s[i] \in cut
    THEN <<>>
    ELSE LET lo == CHOOSE i \in 1..Len(s) :
                     s[i] \notin cut /\ \A j \in 1..(i - 1) : s[j] \in cut
             hi == CHOOSE i \in 1..Len(s) :
                     s[i] \notin cut /\ \A j \in (i + 1)..Len(s) : s[j] \in cut
         IN SubSeq(s, lo, hi)

TrimSpace(s) == TrimSet(s, WhiteSpace)

\* ------------------------------------------------------------------------
\* Query parameter parsing (strconv)
\* ------------------------------------------------------------------------

RECURSIVE DigitsVal(_)
DigitsVal(s) ==
  IF s = <<>> THEN 0
  ELSE 10 * DigitsVal(Take(s, Len(s) - 1)) + DigitVal(s[Len(s)])

\* strconv.Atoi: optional sign, then at least one digit and nothing else;
\* on a syntax error the result is 0 (the error is dropped by the caller)
Atoi(s) ==
  LET body == IF s # <<>> /\ s[1] \in {"+", "-"} THEN Tail(s) ELSE s
      ok   == body # <<>> /\ \A i \in 1..Len(body) : IsDigit(body[i])
  IN IF ~ok THEN 0
     ELSE IF s[1] = "-" THEN 0 - DigitsVal(body) ELSE DigitsVal(body)

BoolTrueLits ==
  { <<"1">>, <<"t">>, <<"T">>, <<"T","R","U","E">>,
    <<"t","r","u","e">>, <<"T","r","u","e">> }

BoolFalseLits ==
  { <<"0">>, <<"f">>, <<"F">>, <<"F","A","L","S","E">>,
    <<"f","a","l","s","e">>, <<"F","a","l","s","e">> }

\* strconv.ParseBool: [ok, val]
ParseBool(s) ==
  IF s \in BoolTrueLits THEN [ok |-> TRUE, val |-> TRUE]
  ELSE IF s \in BoolFalseLits THEN [ok |-> TRUE, val |-> FALSE]
  ELSE [ok |-> FALSE, val |-> FALSE]

\* a query parameter: present or not, and its raw text
Param(s) == [present |-> TRUE, val |-> s]

Absent == [present |-> FALSE, val |-> <<>>]

\* gin Context.DefaultQuery
DefaultQuery(p, def) == IF p.present THEN p.val ELSE def

\* gin Context.Query
Query(p) == IF p.present THEN p.val ELSE <<>>

\* ------------------------------------------------------------------------
\* models/utils.go
\* ------------------------------------------------------------------------

MaxSlugLen == 100

WordsPerMinute == 200

DefaultExcerptLen == 300

IsSlugChar(c) == c \in Range(LowerSeq) \/ IsDigit(c)

\* marks a position that a replacement leaves out; not a character
Dropped == "DROPPED"

\* regexp.ReplaceAllString for a pattern class+ : every maximal run of
\* characters of the class becomes one `with`; inClass[i] tells whether
\* s[i] is of the class
ReplaceRuns(s, inClass, with) ==
  SelectSeq([i \in 1..Len(s) |->
               IF ~inClass[i] THEN s[i]
               ELSE IF i = 1 THEN with
               ELSE IF inClass[i - 1] THEN Dropped
               ELSE with],
            LAMBDA c : c # Dropped)

\* regexp [^a-z0-9]+ replaced by "-"
HyphenateRuns(s) ==
  ReplaceRuns(s, [i \in 1..Len(s) |-> ~IsSlugChar(s[i])], "-")

\* the cut to MaxSlugLen characters without the second Trim
GenerateSlugNoRetrim(title) ==
  LET s1 == TrimSet(HyphenateRuns(ToLower(title)), {"-"})
  IN IF Len(s1) > MaxSlugLen THEN Take(s1, MaxSlugLen) ELSE s1

GenerateSlug(title) ==
  LET s1 == TrimSet(HyphenateRuns(ToLower(title)), {"-"})
  IN IF Len(s1) > MaxSlugLen
       THEN TrimSet(Take(s1, MaxSlugLen), {"-"})
       ELSE s1

SetMin(S) == CHOOSE m \in S : \A k \in S : m <= k

SetMax(S) == CHOOSE m \in S : \A k \in S : m >= k

\* regexp <[^>]*> replaced by " ": a match ends at a ">" and holds no other
\* ">", so it starts at the first "<" after the ">" before it
stripHTMLTags(s) ==
  LET closes == { i \in 1..Len(s) : s[i] = ">" }
      mark(x) ==
        LET after == { i \in closes : i >= x }
        IN IF after = {} THEN s[x]
           ELSE LET close == SetMin(after)
                    prev == SetMax({ i \in closes : i < x } \cup {0})
                    opens == { j \in (prev + 1)..(close - 1) : s[j] = "<" }
                IN IF opens = {} \/ x < SetMin(opens \cup {close}) THEN s[x]
                   ELSE IF x = SetMin(opens) THEN " "
                   ELSE Dropped
  IN SelectSeq([x \in 1..Len(s) |-> mark(x)], LAMBDA c : c # Dropped)

\* len(strings.Fields(s)): the positions where a word starts
CountFields(s) ==
  Cardinality({ i \in 1..Len(s) :
                  /\ s[i] \notin WhiteSpace
                  /\ (i = 1 \/ s[i - 1] \in WhiteSpace) })

\* integer division that rounds down
FloorDiv(a, b) == a \div b

CeilDiv(a, b) == (a + b - 1) \div b

CalculateReadingTime(content) ==
  IF content = <<>> THEN 0
  ELSE LET wordCount == CountFields(stripHTMLTags(content))
           readingTime == CeilDiv(wordCount, WordsPerMinute)
       IN IF readingTime < 1 THEN 1 ELSE readingTime

\* the control characters removed, the result not trimmed
SanitizeNoTrim(input) ==
  SelectSeq(input,
            LAMBDA r : ~(r \in ControlChars /\ r \notin {"\n", "\t", "\r"}))

SanitizeString(input) ==
  TrimSpace(SelectSeq(input,
              LAMBDA r : ~(r \in ControlChars /\ r \notin {"\n", "\t", "\r"})))

\* strings.LastIndex(s, " "), 0-based, -1 when absent
LastIndexSpace(s) ==
  IF \E i \in 1..Len(s) : s[i] = " "
    THEN (CHOOSE i \in 1..Len(s) :
            s[i] = " " /\ \A j \in (i + 1)..Len(s) : s[j] # " ") - 1
    ELSE 0 - 1

truncateText(text, maxLength) ==
  IF Len(text) <= maxLength THEN text
  ELSE LET truncated == Take(text, maxLength)
           lastSpace == LastIndexSpace(truncated)
       IN (IF lastSpace > 0 THEN Take(text, lastSpace) ELSE truncated)
            \o <<".", ".", ".">>

\* regexp \s+ replaced by " "  (\s is [\t\n\f\r ])
CollapseSpace(s) ==
  ReplaceRuns(s, [i \in 1..Len(s) |-> s[i] \in {"\t", "\n", "\f", "\r", " "}],
              " ")

GenerateExcerpt(content, maxLength) ==
  LET ml == IF maxLength = 0 THEN DefaultExcerptLen ELSE maxLength
      c1 == stripHTMLTags(content)
      c2 == [i \in 1..Len(c1) |-> IF c1[i] = "\n" THEN " " ELSE c1[i]]
      c3 == CollapseSpace(c2)
  IN truncateText(TrimSpace(c3), ml)

\* strconv.FormatInt(n, 10) for n >= 0
RECURSIVE FormatInt(_)
FormatInt(n) ==
  IF n < 10 THEN <<DigitSeq[n + 1]>>
  ELSE FormatInt(n \div 10) \o <<DigitSeq[(n % 10) + 1]>>

\* strings.Split(s, ",")
RECURSIVE SplitComma(_)
SplitComma(s) ==
  IF \E i \in 1..Len(s) : s[i] = ","
    THEN LET k == CHOOSE i \in 1..Len(s) :
                    s[i] = "," /\ \A j \in 1..(i - 1) : s[j] # ","
         IN <<Take(s, k - 1)>> \o SplitComma(Drop(s, k))
    ELSE <<s>>

\* ------------------------------------------------------------------------
\* The blogs table and the Blog entity
\* ------------------------------------------------------------------------

\* the nil *time.Time
NoTime == 0 - 1

\* Blog.BeforeCreate: fills slug, reading time and publish timestamp
BeforeCreate(b, t) ==
  [b EXCEPT !.slug = IF b.slug = <<>> THEN GenerateSlug(b.title) ELSE b.slug,
            !.readingTime = CalculateReadingTime(b.content),
            !.publishedAt = IF b.published /\ b.publishedAt = NoTime
                              THEN t ELSE b.publishedAt]

\* a response that carries content and SEO fields whatever the flag
ToResponseFull(b, includeContent) ==
  [id          |-> b.id,
   title       |-> b.title,
   slug        |-> b.slug,
   content     |-> b.content,
   excerpt     |-> b.excerpt,
   author      |-> b.author,
   published   |-> b.published,
   featured    |-> b.featured,
   tags        |-> IF b.tags # <<>>
                     THEN LET parts == SplitComma(b.tags)
                          IN [i \in 1..Len(parts) |-> TrimSpace(parts[i])]
                     ELSE <<>>,
   metaTitle   |-> b.metaTitle,
   metaDesc    |-> b.metaDesc,
   readingTime |-> b.readingTime,
   viewCount   |-> b.viewCount,
   createdAt   |-> b.createdAt,
   updatedAt   |-> b.updatedAt,
   publishedAt |-> b.publishedAt]

\* Blog.ToResponse
ToResponse(b, includeContent) ==
  [id          |-> b.id,
   title       |-> b.title,
   slug        |-> b.slug,
   content     |-> IF includeContent THEN b.content ELSE <<>>,
   excerpt     |-> b.excerpt,
   author      |-> b.author,
   published   |-> b.published,
   featured    |-> b.featured,
   tags        |-> IF b.tags # <<>>
                     THEN LET parts == SplitComma(b.tags)
                          IN [i \in 1..Len(parts) |-> TrimSpace(parts[i])]
                     ELSE <<>>,
   metaTitle   |-> IF includeContent THEN b.metaTitle ELSE <<>>,
   metaDesc    |-> IF includeContent THEN b.metaDesc ELSE <<>>,
   readingTime |-> b.readingTime,
   viewCount   |-> b.viewCount,
   createdAt   |-> b.createdAt,
   updatedAt   |-> b.updatedAt,
   publishedAt |-> b.publishedAt]

\* SQL LIKE: % matches any run of characters, _ any one character
RECURSIVE Like(_, _)
Like(s, pat) ==
  IF pat = <<>> THEN s = <<>>
  ELSE IF Head(pat) = "%"
    THEN \E k \in 0..Len(s) : Like(Drop(s, k), Tail(pat))
  ELSE /\ s # <<>>
       /\ Head(pat) = "_" \/ Head(pat) = Head(s)
       /\ Like(Tail(s), Tail(pat))

\* the page taken as parsed, without the lower clamp
EffPageUnclamped(in) == Atoi(DefaultQuery(in.page, <<"1">>))

\* effective page of a listing request
EffPage(in) ==
  LET page == Atoi(DefaultQuery(in.page, <<"1">>))
  IN IF page < 1 THEN 1 ELSE page

\* the limit with the lower clamp only
EffLimitNoUpper(in) ==
  LET limit == Atoi(DefaultQuery(in.limit, <<"1", "0">>))
  IN IF limit < 1 THEN 10 ELSE limit

\* effective limit of a listing request
EffLimit(in) ==
  LET limit == Atoi(DefaultQuery(in.limit, <<"1", "0">>))
  IN IF limit < 1 \/ limit > 100 THEN 10 ELSE limit

\* the WHERE clause GetBlogs builds from the query parameters
ListWhere(b, in) ==
  LET pub   == ParseBool(DefaultQuery(in.published, <<"t","r","u","e">>))
      fp    == Query(in.featured)
      feat  == ParseBool(fp)
      search == Query(in.search)
      term  == <<"%">> \o ToLower(search) \o <<"%">>
  IN /\ pub.ok => b.published = pub.val
     /\ (fp # <<>> /\ feat.ok) => b.featured = feat.val
     /\ search # <<>> =>
          \/ Like(ToLower(b.title), term)
          \/ Like(ToLower(b.content), term)
          \/ Like(ToLower(b.excerpt), term)
          \/ Like(ToLower(b.tags), term)

\* the results ORDER BY created_at (ascending) may produce
RECURSIVE OrderByCreatedAsc(_)
OrderByCreatedAsc(S) ==
  IF S = {} THEN { <<>> }
  ELSE UNION { { <<b>> \o rest : rest \in OrderByCreatedAsc(S \ {b}) } :
               b \in { x \in S : \A y \in S : y.createdAt >= x.createdAt } }

\* the results ORDER BY created_at DESC may produce: rows with equal
\* created_at come in an order the database chooses
RECURSIVE OrderByCreatedDesc(_)
OrderByCreatedDesc(S) ==
  IF S = {} THEN { <<>> }
  ELSE UNION { { <<b>> \o rest : rest \in OrderByCreatedDesc(S \ {b}) } :
               b \in { x \in S : \A y \in S : y.createdAt <= x.createdAt } }

\* OFFSET offset without the LIMIT
OffsetNoLimit(rows, offset, limit) ==
  IF offset >= 0 THEN Drop(rows, Min(offset, Len(rows))) ELSE rows

\* OFFSET offset LIMIT limit; the ORM leaves out a negative OFFSET or LIMIT
OffsetLimit(rows, offset, limit) ==
  LET skipped == IF offset >= 0 THEN Drop(rows, Min(offset, Len(rows)))
                 ELSE rows
  IN IF limit >= 0 THEN Take(skipped, Min(limit, Len(skipped))) ELSE skipped

\* offset := (page - 1) * limit
PageOffset(page, limit) == (page - 1) * limit

\* ------------------------------------------------------------------------
\* Bounds and request inputs
\* ------------------------------------------------------------------------

\* row-changing statements over a run
MaxWrites == 2

\* clock readings; created_at, updated_at and published_at are clock readings
MaxClock == 2

\* clock readings per second of time.Now().Unix()
TicksPerSecond == 2

\* requests in flight at the same time
Procs == {"r1", "r2"}

\* an optional (pointer) field of UpdateBlogRequest
Some(v) == [present |-> TRUE, val |-> v]

None == [present |-> FALSE, val |-> <<>>]

NoneBool == [present |-> FALSE, val |-> FALSE]

\* the sample posts of seedDatabase, cut down to two: one published and
\* featured, one draft; their slugs are given, not generated from the title
SampleBlogs ==
  << [id |-> 0, title |-> <<"W","e","b">>, slug |-> <<"w","e","b","-","a","i">>,
      content |-> <<"<","p",">","a"," ","b","<","/","p",">">>,
      excerpt |-> <<"a","i">>, author |-> <<"S">>,
      published |-> TRUE, featured |-> TRUE, tags |-> <<"a",","," ","b">>,
      metaTitle |-> <<"W">>, metaDesc |-> <<"d">>,
      readingTime |-> 0, viewCount |-> 0,
      createdAt |-> 0, updatedAt |-> 0, publishedAt |-> NoTime],
     [id |-> 0, title |-> <<"V","u","i">>, slug |-> <<"v","u","i","-","x">>,
      content |-> <<"d","r","a","f","t">>,
      excerpt |-> <<"v">>, author |-> <<"S">>,
      published |-> FALSE, featured |-> FALSE, tags |-> <<>>,
      metaTitle |-> <<>>, metaDesc |-> <<>>,
      readingTime |-> 0, viewCount |-> 0,
      createdAt |-> 0, updatedAt |-> 0, publishedAt |-> NoTime] >>

\* bodies of POST /blogs
CreateInputs ==
  { [title |-> <<"W","e","b">>, content |-> <<"x"," ","y">>, excerpt |-> <<>>,
     author |-> <<"A">>, published |-> TRUE, featured |-> FALSE,
     tags |-> <<>>, metaTitle |-> <<>>, metaDesc |-> <<>>],
    [title |-> <<"V","u","i","!">>, content |-> <<"z">>, excerpt |-> <<"e">>,
     author |-> <<"A">>, published |-> FALSE, featured |-> TRUE,
     tags |-> <<"t">>, metaTitle |-> <<>>, metaDesc |-> <<>>] }

EmptyUpdate ==
  [title |-> None, content |-> None, excerpt |-> None, author |-> None,
   published |-> NoneBool, featured |-> NoneBool, tags |-> None,
   metaTitle |-> None, metaDesc |-> None]

\* bodies of PUT /blogs/:id
ConcurrentUpdates ==
  { [EmptyUpdate EXCEPT !.title = Some(<<"W","e","b">>)],
    [EmptyUpdate EXCEPT !.published = [present |-> TRUE, val |-> FALSE]] }

DefaultList ==
  [page |-> Absent, limit |-> Absent, search |-> Absent,
   featured |-> Absent, published |-> Absent]

PageParams ==
  { Absent, Param(<<>>), Param(<<"x">>), Param(<<"-","1">>), Param(<<"0">>),
    Param(<<"1">>), Param(<<"2">>), Param(<<"3">>) }

LimitParams ==
  { Absent, Param(<<"x">>), Param(<<"0">>), Param(<<"1">>), Param(<<"2">>),
    Param(<<"1","0","0">>), Param(<<"1","0","1">>) }

SearchParams == { Absent, Param(<<"W">>), Param(<<"%">>), Param(<<"_">>) }

FeaturedParams ==
  { Absent, Param(<<"t","r","u","e">>), Param(<<"0">>), Param(<<"z">>) }

PublishedParams ==
  { Absent, Param(<<"f","a","l","s","e">>), Param(<<"z">>), Param(<<>>) }

\* query strings of GET /blogs: every page/limit pair without filters, and
\* every filter combination on the first page of two
QueryInputs ==
  { [DefaultList EXCEPT !.page = p, !.limit = l] :
      p \in PageParams, l \in LimitParams }
  \cup
  { [page |-> Absent, limit |-> Param(<<"2">>), search |-> s, featured |-> f,
     published |-> q] :
      s \in SearchParams, f \in FeaturedParams, q \in PublishedParams }

\* query strings of GET /blogs used when every handler runs concurrently
ListInputs ==
  { [DefaultList EXCEPT !.limit = Param(<<"1">>)] }

\* ------------------------------------------------------------------------
\* State
\* ------------------------------------------------------------------------

VARIABLES
  blogs,      \* the rows of the blogs table
  nextID,     \* the next value of the auto-increment primary key
  now,        \* the clock
  writes,     \* number of row-changing statements executed so far
  persisted,  \* per post id: view-count increments that were persisted
  req         \* per handler: the request it is serving and its locals

vars == <<blogs, nextID, now, writes, persisted, req>>

Idle == [op |-> "idle", pc |-> "idle"]

Free(p) == req[p].pc = "idle"

Unix(t) == t \div TicksPerSecond

\* rows matching a predicate on one column value
BySlug(slug) == { b \in blogs : b.slug = slug }

ByID(id) == { b \in blogs : b.id = id }

\* seedDatabase: db.Create of each sample post, one clock reading apart
InitStore ==
  /\ blogs = { BeforeCreate([SampleBlogs[i] EXCEPT !.id = i,
                                                    !.createdAt = i - 1,
                                                    !.updatedAt = i - 1],
                            i - 1) : i \in DOMAIN SampleBlogs }
  /\ nextID = Len(SampleBlogs) + 1
  /\ now = Len(SampleBlogs) - 1
  /\ writes = 0
  /\ persisted = [i \in DOMAIN SampleBlogs |-> 0]

Init ==
  /\ InitStore
  /\ req = [p \in Procs |-> Idle]

\* time passes
Tick ==
  /\ now < MaxClock
  /\ now' = now + 1
  /\ UNCHANGED <<blogs, nextID, writes, persisted, req>>

\* ------------------------------------------------------------------------
\* GET /blogs
\* ------------------------------------------------------------------------

\* a count of all rows, without the conditions of the query
CountAll(in) == Cardinality(blogs)

\* query.Count(&total): the number of rows the conditions of the query match
CountWhere(in) == Cardinality({ b \in blogs : ListWhere(b, in) })

\* GetBlogs up to and including query.Count(&total)
GetBlogsCount(p, in) ==
  /\ Free(p)
  /\ req' = [req EXCEPT ![p] =
       [op |-> "list", pc |-> "fetch", in |-> in,
        page |-> EffPage(in), limit |-> EffLimit(in),
        total |-> CountWhere(in),
        countedAt |-> writes]]
  /\ UNCHANGED <<blogs, nextID, now, writes, persisted>>

\* pagination metadata with the page count rounded down
PageMetaFloor(total, page, limit) ==
  LET totalPages == total \div limit
  IN [total |-> total, page |-> page, limit |-> limit,
      totalPages |-> totalPages,
      hasNext |-> page < totalPages,
      hasPrev |-> page > 1]

\* pagination metadata of the response
PageMeta(total, page, limit) ==
  LET totalPages == CeilDiv(total, limit)
  IN [total |-> total, page |-> page, limit |-> limit,
      totalPages |-> totalPages,
      hasNext |-> page < totalPages,
      hasPrev |-> page > 1]

\* GetBlogs from the Find to the JSON response
GetBlogsFetch(p) ==
  /\ req[p].op = "list" /\ req[p].pc = "fetch"
  /\ LET r == req[p]
         matching == { b \in blogs : ListWhere(b, r.in) }
         offset == PageOffset(r.page, r.limit)
     IN \E rows \in OrderByCreatedDesc(matching) :
          LET found == OffsetLimit(rows, offset, r.limit)
          IN req' = [req EXCEPT ![p] =
               [op |-> "list", pc |-> "done", in |-> r.in, status |-> 200,
                blogs |-> [i \in 1..Len(found) |-> ToResponse(found[i], FALSE)],
                meta |-> PageMeta(r.total, r.page, r.limit),
                countedAt |-> r.countedAt, fetchedAt |-> writes,
                matched |-> Cardinality(matching)]]
  /\ UNCHANGED <<blogs, nextID, now, writes, persisted>>

\* ------------------------------------------------------------------------
\* GET /blogs/:slug
\* ------------------------------------------------------------------------

\* the lookup by slug alone
FindAnyBySlug(slug) == { b \in blogs : b.slug = slug }

\* Where("slug = ? AND published = ?", slug, true).First(&blog)
FindPublishedBySlug(slug) == { b \in blogs : b.slug = slug /\ b.published }

\* GetBlogBySlug up to the lookup; 404 when no row is found
GetBlogBySlugFind(p, slug) ==
  /\ Free(p)
  /\ LET found == FindPublishedBySlug(slug)
     IN IF found = {}
          THEN req' = [req EXCEPT ![p] =
                 [op |-> "get", pc |-> "done", slug |-> slug, status |-> 404]]
          ELSE \E b \in found :
                 req' = [req EXCEPT ![p] =
                   [op |-> "get", pc |-> "incr", slug |-> slug, blog |-> b]]
  /\ UNCHANGED <<blogs, nextID, now, writes, persisted>>

\* the increment computed from the handler's copy of the row
StoreViewCount(blog) ==
  { IF b.id = blog.id THEN [b EXCEPT !.viewCount = blog.viewCount + 1] ELSE b :
      b \in blogs }

\* UPDATE blogs SET view_count = view_count + 1 WHERE id = blog.ID
IncrementViewCount(blog) ==
  { IF b.id = blog.id THEN [b EXCEPT !.viewCount = b.viewCount + 1] ELSE b :
      b \in blogs }

\* the response of GetBlogBySlug with the outcome of the view-count statement
\* reported to the caller
GetBlogResponseChecked(blog, ok) ==
  IF ok THEN [status |-> 200, body |-> ToResponse(blog, TRUE)]
        ELSE [status |-> 500, body |-> ToResponse(blog, TRUE)]

\* the response of GetBlogBySlug: the error of the view-count statement is
\* dropped, the row read by the lookup is sent with 200
GetBlogResponse(blog, ok) ==
  [status |-> 200, body |-> ToResponse(blog, TRUE)]

\* GetBlogBySlug from the view-count statement to the response; the
\* statement may fail (ok = FALSE), and it changes nothing when the row is
\* gone
GetBlogBySlugIncrement(p) ==
  /\ req[p].op = "get" /\ req[p].pc = "incr"
  /\ LET blog == req[p].blog
     IN \E ok \in BOOLEAN :
          /\ IF ok /\ ByID(blog.id) # {}
               THEN /\ writes < MaxWrites
                    /\ blogs' = IncrementViewCount(blog)
                    /\ writes' = writes + 1
                    /\ persisted' = [persisted EXCEPT ![blog.id] = @ + 1]
               ELSE UNCHANGED <<blogs, writes, persisted>>
          /\ LET resp == GetBlogResponse(blog, ok)
             IN req' = [req EXCEPT ![p] =
                  [op |-> "get", pc |-> "done", slug |-> req[p].slug,
                   status |-> resp.status, body |-> resp.body,
                   incremented |-> blogs' # blogs]]
  /\ UNCHANGED <<nextID, now>>

\* ------------------------------------------------------------------------
\* POST /blogs
\* ------------------------------------------------------------------------

\* limits written in the validate tags of CreateBlogRequest
TitleMaxLen == 255

ContentMinLen == 10

ExcerptMaxLen == 500

AuthorMaxLen == 100

MetaTitleMaxLen == 60

MetaDescMaxLen == 160

\* the validate tags of CreateBlogRequest, read as constraints on a body
ValidCreate(in) ==
  /\ Len(in.title) >= 1 /\ Len(in.title) <= TitleMaxLen
  /\ Len(in.content) >= ContentMinLen
  /\ Len(in.excerpt) <= ExcerptMaxLen
  /\ Len(in.author) >= 1 /\ Len(in.author) <= AuthorMaxLen
  /\ Len(in.metaTitle) <= MetaTitleMaxLen
  /\ Len(in.metaDesc) <= MetaDescMaxLen

\* c.ShouldBindJSON(&req) of a well-formed JSON body: the binder checks
\* `binding` tags, the request structs carry `validate` tags only, and no
\* validator is called on them, so every such body is bound
ShouldBindJSON(in) == TRUE

\* CreateBlog up to the slug lookup: the slug of the title, with the Unix
\* time appended when a row already has it
CreateBlogSlug(p, in) ==
  /\ Free(p)
  /\ IF ~ShouldBindJSON(in)
       THEN req' = [req EXCEPT ![p] =
              [op |-> "create", pc |-> "done", in |-> in, status |-> 400]]
       ELSE LET slug == GenerateSlug(in.title)
            IN req' = [req EXCEPT ![p] =
                 [op |-> "create", pc |-> "insert", in |-> in,
                  slug |-> IF BySlug(slug) # {}
                             THEN slug \o <<"-">> \o FormatInt(Unix(now))
                             ELSE slug]]
  /\ UNCHANGED <<blogs, nextID, now, writes, persisted>>

\* the models.Blog value CreateBlog builds, after the BeforeCreate hook and
\* the ORM's id and timestamps
NewBlog(in, slug, id, t) ==
  LET excerpt == IF in.excerpt = <<>>
                   THEN GenerateExcerpt(in.content, DefaultExcerptLen)
                   ELSE in.excerpt
  IN BeforeCreate(
       [id |-> id,
        title |-> SanitizeString(in.title),
        slug |-> slug,
        content |-> SanitizeString(in.content),
        excerpt |-> SanitizeString(excerpt),
        author |-> SanitizeString(in.author),
        published |-> in.published,
        featured |-> in.featured,
        tags |-> SanitizeString(in.tags),
        metaTitle |-> SanitizeString(in.metaTitle),
        metaDesc |-> SanitizeString(in.metaDesc),
        readingTime |-> 0, viewCount |-> 0,
        createdAt |-> t, updatedAt |-> t, publishedAt |-> NoTime], t)

\* a table without a unique index on slug
NoUniqueIndex(slug, id) == FALSE

\* the unique index on blogs.slug: a row other than `id` has the slug
SlugTaken(slug, id) == \E o \in blogs : o.id # id /\ o.slug = slug

\* CreateBlog from db.Create to the response; the unique index on slug
\* rejects a duplicate
CreateBlogInsert(p) ==
  /\ req[p].op = "create" /\ req[p].pc = "insert"
  /\ LET blog == NewBlog(req[p].in, req[p].slug, nextID, now)
     IN IF SlugTaken(blog.slug, blog.id)
          THEN /\ req' = [req EXCEPT ![p] =
                    [op |-> "create", pc |-> "done", in |-> req[p].in,
                     status |-> 500]]
               /\ UNCHANGED <<blogs, nextID, writes, persisted>>
          ELSE /\ writes < MaxWrites
               /\ blogs' = blogs \cup {blog}
               /\ nextID' = nextID + 1
               /\ writes' = writes + 1
               /\ persisted' = [i \in DOMAIN persisted \cup {nextID} |->
                                  IF i = nextID THEN 0 ELSE persisted[i]]
               /\ req' = [req EXCEPT ![p] =
                    [op |-> "create", pc |-> "done", in |-> req[p].in,
                     status |-> 201, body |-> ToResponse(blog, TRUE)]]
  /\ UNCHANGED now

\* ------------------------------------------------------------------------
\* PUT /blogs/:id
\* ------------------------------------------------------------------------

\* UpdateBlog up to db.First(&blog, id); 404 when the row is missing
UpdateBlogFind(p, id, in) ==
  /\ Free(p)
  /\ IF ByID(id) = {}
       THEN req' = [req EXCEPT ![p] =
              [op |-> "update", pc |-> "done", id |-> id, in |-> in,
               status |-> 404]]
       ELSE \E b \in ByID(id) :
              req' = [req EXCEPT ![p] =
                [op |-> "update", pc |-> "write", id |-> id, in |-> in,
                 blogID |-> b.id, blog |-> b]]
  /\ UNCHANGED <<blogs, nextID, now, writes, persisted>>

\* the updates map: the columns the request supplies
HasUpdates(in) ==
  \/ in.title.present \/ in.content.present \/ in.excerpt.present
  \/ in.author.present \/ in.published.present \/ in.featured.present
  \/ in.tags.present \/ in.metaTitle.present \/ in.metaDesc.present

\* the row after an UPDATE that writes the supplied columns but leaves the
\* slug alone
ApplyUpdatesKeepSlug(b, in, t) ==
  [b EXCEPT
     !.title     = IF in.title.present THEN SanitizeString(in.title.val) ELSE @,
     !.content   = IF in.content.present THEN SanitizeString(in.content.val) ELSE @,
     !.excerpt   = IF in.excerpt.present THEN SanitizeString(in.excerpt.val) ELSE @,
     !.author    = IF in.author.present THEN SanitizeString(in.author.val) ELSE @,
     !.published = IF in.published.present THEN in.published.val ELSE @,
     !.featured  = IF in.featured.present THEN in.featured.val ELSE @,
     !.tags      = IF in.tags.present THEN SanitizeString(in.tags.val) ELSE @,
     !.metaTitle = IF in.metaTitle.present THEN SanitizeString(in.metaTitle.val) ELSE @,
     !.metaDesc  = IF in.metaDesc.present THEN SanitizeString(in.metaDesc.val) ELSE @,
     !.updatedAt = t]

\* the row after an UPDATE that writes every column of the request, the
\* absent ones with their zero values
ApplyUpdatesWholeRow(b, in, t) ==
  [b EXCEPT
     !.title     = SanitizeString(in.title.val),
     !.slug      = GenerateSlug(in.title.val),
     !.content   = SanitizeString(in.content.val),
     !.excerpt   = SanitizeString(in.excerpt.val),
     !.author    = SanitizeString(in.author.val),
     !.published = in.published.val,
     !.featured  = in.featured.val,
     !.tags      = SanitizeString(in.tags.val),
     !.metaTitle = SanitizeString(in.metaTitle.val),
     !.metaDesc  = SanitizeString(in.metaDesc.val),
     !.updatedAt = t]

\* the row after UPDATE blogs SET <the columns of the updates map>,
\* updated_at = now.  Updates with a map writes those columns only: what
\* BeforeUpdate assigns to the reading time and the publish timestamp of the
\* in-memory struct is not part of the statement.
ApplyUpdates(b, in, t) ==
  [b EXCEPT
     !.title     = IF in.title.present THEN SanitizeString(in.title.val) ELSE @,
     !.slug      = IF in.title.present THEN GenerateSlug(in.title.val) ELSE @,
     !.content   = IF in.content.present THEN SanitizeString(in.content.val) ELSE @,
     !.excerpt   = IF in.excerpt.present THEN SanitizeString(in.excerpt.val) ELSE @,
     !.author    = IF in.author.present THEN SanitizeString(in.author.val) ELSE @,
     !.published = IF in.published.present THEN in.published.val ELSE @,
     !.featured  = IF in.featured.present THEN in.featured.val ELSE @,
     !.tags      = IF in.tags.present THEN SanitizeString(in.tags.val) ELSE @,
     !.metaTitle = IF in.metaTitle.present THEN SanitizeString(in.metaTitle.val) ELSE @,
     !.metaDesc  = IF in.metaDesc.present THEN SanitizeString(in.metaDesc.val) ELSE @,
     !.updatedAt = t]

\* the handler's copy of the row, read by First, written back whole
SavedRow(cur, blog) == blog

\* the row the UPDATE statement changes is the stored one (WHERE id = ?),
\* whatever the handler's copy `blog` holds
UpdatedRow(cur, blog) == cur

\* UpdateBlog: db.Model(&blog).Updates(updates).  An empty map issues no
\* statement; a statement for a row that is gone changes nothing; the unique
\* index on slug rejects a slug another row has.
UpdateBlogWrite(p) ==
  /\ req[p].op = "update" /\ req[p].pc = "write"
  /\ LET r == req[p]
         rows == ByID(r.blogID)
     IN IF ~HasUpdates(r.in) \/ rows = {}
          THEN /\ req' = [req EXCEPT ![p] =
                                [op |-> "update", pc |-> "reread",
                                 id |-> r.id, in |-> r.in, blog |-> r.blog]]
               /\ UNCHANGED <<blogs, writes>>
          ELSE \E cur \in rows :
                 LET new == ApplyUpdates(UpdatedRow(cur, r.blog), r.in, now)
                 IN IF SlugTaken(new.slug, cur.id)
                      THEN /\ req' = [req EXCEPT ![p] =
                                [op |-> "update", pc |-> "done", id |-> r.id,
                                 in |-> r.in, status |-> 500]]
                           /\ UNCHANGED <<blogs, writes>>
                      ELSE /\ writes < MaxWrites
                           /\ blogs' = (blogs \ {cur}) \cup {new}
                           /\ writes' = writes + 1
                           /\ req' = [req EXCEPT ![p] =
                                [op |-> "update", pc |-> "reread",
                                 id |-> r.id, in |-> r.in, blog |-> r.blog]]
  /\ UNCHANGED <<nextID, now, persisted>>

\* UpdateBlog from the second db.First(&blog, id) to the response
UpdateBlogReread(p) ==
  /\ req[p].op = "update" /\ req[p].pc = "reread"
  /\ LET r == req[p]
     IN IF ByID(r.id) = {}
          THEN req' = [req EXCEPT ![p] =
                 [op |-> "update", pc |-> "done", id |-> r.id, in |-> r.in,
                  status |-> 500]]
          ELSE \E b \in ByID(r.id) :
                 req' = [req EXCEPT ![p] =
                   [op |-> "update", pc |-> "done", id |-> r.id, in |-> r.in,
                    status |-> 200, body |-> ToResponse(b, TRUE),
                    blog |-> r.blog]]
  /\ UNCHANGED <<blogs, nextID, now, writes, persisted>>

\* ------------------------------------------------------------------------
\* DELETE /blogs/:id
\* ------------------------------------------------------------------------

\* DeleteBlog up to db.First(&blog, id); 404 when the row is missing
DeleteBlogFind(p, id) ==
  /\ Free(p)
  /\ IF ByID(id) = {}
       THEN req' = [req EXCEPT ![p] =
              [op |-> "delete", pc |-> "done", id |-> id, status |-> 404]]
       ELSE req' = [req EXCEPT ![p] =
              [op |-> "delete", pc |-> "delete", id |-> id]]
  /\ UNCHANGED <<blogs, nextID, now, writes, persisted>>

\* a delete that leaves the row in the table
MarkDeleted(id) == blogs

\* DELETE FROM blogs WHERE id = ?: Blog has no DeletedAt column, so the row
\* is removed
DeleteRow(id) == blogs \ ByID(id)

\* DeleteBlog: db.Delete(&blog), then 204
DeleteBlogDelete(p) ==
  /\ req[p].op = "delete" /\ req[p].pc = "delete"
  /\ IF ByID(req[p].id) = {}
       THEN UNCHANGED <<blogs, writes>>
       ELSE /\ writes < MaxWrites
            /\ blogs' = DeleteRow(req[p].id)
            /\ writes' = writes + 1
  /\ req' = [req EXCEPT ![p] =
       [op |-> "delete", pc |-> "done", id |-> req[p].id, status |-> 204]]
  /\ UNCHANGED <<nextID, now, persisted>>

\* ------------------------------------------------------------------------
\* Specifications
\* ------------------------------------------------------------------------

\* c.JSON / c.Status: the response is sent and the handler returns
Respond(p) ==
  /\ req[p].pc = "done"
  /\ req' = [req EXCEPT ![p] = Idle]
  /\ UNCHANGED <<blogs, nextID, now, writes, persisted>>

\* no response is waiting to be sent: a finished handler sends its response
\* before anything else happens
Quiet == \A p \in Procs : req[p].pc # "done"

\* ids and slugs requests may name: every id issued so far and one more
IDs == 1..nextID

Slugs == { b.slug : b \in blogs } \cup { <<"n","o","n","e">> }

\* every handler, any number of times: reads on two concurrent requests,
\* interleaved step by step with the writes of one of them
Next ==
  \/ \E p \in Procs : Respond(p)
  \/ Quiet /\ Tick
  \/ \E p \in Procs, in \in ListInputs : Quiet /\ GetBlogsCount(p, in)
  \/ \E p \in Procs : Quiet /\ GetBlogsFetch(p)
  \/ \E p \in Procs, slug \in Slugs : Quiet /\ GetBlogBySlugFind(p, slug)
  \/ \E p \in Procs : Quiet /\ GetBlogBySlugIncrement(p)
  \/ \E in \in CreateInputs : Quiet /\ CreateBlogSlug("r1", in)
  \/ Quiet /\ CreateBlogInsert("r1")
  \/ \E id \in IDs, in \in ConcurrentUpdates :
       Quiet /\ UpdateBlogFind("r1", id, in)
  \/ Quiet /\ UpdateBlogWrite("r1")
  \/ Quiet /\ UpdateBlogReread("r1")
  \/ \E id \in IDs : Quiet /\ DeleteBlogFind("r1", id)
  \/ Quiet /\ DeleteBlogDelete("r1")

Spec == Init /\ [][Next]_vars

\* one request at a time: listings over the full range of query strings,
\* with posts created and deleted in between
NextQuery ==
  \/ Respond("r1")
  \/ Quiet /\ Tick
  \/ \E in \in QueryInputs : Quiet /\ GetBlogsCount("r1", in)
  \/ Quiet /\ GetBlogsFetch("r1")
  \/ \E in \in CreateInputs : Quiet /\ CreateBlogSlug("r1", in)
  \/ Quiet /\ CreateBlogInsert("r1")
  \/ \E id \in IDs : Quiet /\ DeleteBlogFind("r1", id)
  \/ Quiet /\ DeleteBlogDelete("r1")

SpecQuery == Init /\ [][NextQuery]_vars

\* query strings of two identical listing requests
PairInputs ==
  { [DefaultList EXCEPT !.limit = Param(<<"1">>)],
    [DefaultList EXCEPT !.limit = Param(<<"1">>), !.page = Param(<<"2">>)] }

\* two listing requests whose responses are both kept, and post creation
NextPair ==
  \/ Tick
  \/ \E p \in Procs, in \in PairInputs : GetBlogsCount(p, in)
  \/ \E p \in Procs : GetBlogsFetch(p)
  \/ \E p \in Procs : Respond(p)
  \/ \E p \in Procs, in \in CreateInputs : CreateBlogSlug(p, in)
  \/ \E p \in Procs : CreateBlogInsert(p)

SpecPair == Init /\ [][NextPair]_vars

\* bodies of POST /blogs of concurrent writers
WriteCreates ==
  { [title |-> <<"W","e","b">>, content |-> <<"x"," ","y">>, excerpt |-> <<>>,
     author |-> <<"A">>, published |-> TRUE, featured |-> FALSE,
     tags |-> <<>>, metaTitle |-> <<>>, metaDesc |-> <<>>] }

\* bodies of PUT /blogs/:id of concurrent writers: a title whose slug another
\* post may hold, and an empty excerpt
WriteUpdates ==
  { [EmptyUpdate EXCEPT !.title = Some(<<"W","e","b">>)],
    [EmptyUpdate EXCEPT !.excerpt = Some(<<>>)] }

\* concurrent writers: creates, updates and deletes of two requests
\* interleaved step by step
NextWrite ==
  \/ \E p \in Procs : Respond(p)
  \/ Quiet /\ Tick
  \/ \E p \in Procs, in \in WriteCreates : Quiet /\ CreateBlogSlug(p, in)
  \/ \E p \in Procs : Quiet /\ CreateBlogInsert(p)
  \/ \E p \in Procs, id \in IDs, in \in WriteUpdates :
       Quiet /\ UpdateBlogFind(p, id, in)
  \/ \E p \in Procs : Quiet /\ UpdateBlogWrite(p)
  \/ \E p \in Procs : Quiet /\ UpdateBlogReread(p)
  \/ \E p \in Procs, id \in IDs : Quiet /\ DeleteBlogFind(p, id)
  \/ \E p \in Procs : Quiet /\ DeleteBlogDelete(p)

SpecWrite == Init /\ [][NextWrite]_vars

\* deletes racing updates, deletes and reads: two requests that delete, one
\* of them also creating and updating posts, the other also reading them
NextDelete ==
  \/ \E p \in Procs : Respond(p)
  \/ Quiet /\ Tick
  \/ \E in \in WriteCreates : Quiet /\ CreateBlogSlug("r1", in)
  \/ Quiet /\ CreateBlogInsert("r1")
  \/ \E id \in IDs, in \in WriteUpdates : Quiet /\ UpdateBlogFind("r1", id, in)
  \/ Quiet /\ UpdateBlogWrite("r1")
  \/ Quiet /\ UpdateBlogReread("r1")
  \/ \E p \in Procs, id \in IDs : Quiet /\ DeleteBlogFind(p, id)
  \/ \E p \in Procs : Quiet /\ DeleteBlogDelete(p)
  \/ \E slug \in Slugs : Quiet /\ GetBlogBySlugFind("r2", slug)
  \/ Quiet /\ GetBlogBySlugIncrement("r2")
  \/ \E in \in ListInputs : Quiet /\ GetBlogsCount("r2", in)
  \/ Quiet /\ GetBlogsFetch("r2")

SpecDelete == Init /\ [][NextDelete]_vars

\* bodies of POST /blogs of an editing session: those of CreateInputs and
\* one with an empty content and a title without letters or digits
EditCreates ==
  CreateInputs \cup
  { [title |-> <<"!">>, content |-> <<>>, excerpt |-> <<>>,
     author |-> <<"A">>, published |-> TRUE, featured |-> FALSE,
     tags |-> <<>>, metaTitle |-> <<>>, metaDesc |-> <<>>] }

\* bodies of PUT /blogs/:id of an editing session: publish, unpublish,
\* and replace the content by the empty string
EditUpdates ==
  { [EmptyUpdate EXCEPT !.published = [present |-> TRUE, val |-> TRUE]],
    [EmptyUpdate EXCEPT !.published = [present |-> TRUE, val |-> FALSE]],
    [EmptyUpdate EXCEPT !.content = Some(<<>>)] }

\* an editing session: one request at a time, posts created, updated, read
\* and deleted
NextEdit ==
  \/ Respond("r1")
  \/ Quiet /\ Tick
  \/ \E in \in EditCreates : Quiet /\ CreateBlogSlug("r1", in)
  \/ Quiet /\ CreateBlogInsert("r1")
  \/ \E id \in IDs, in \in EditUpdates : Quiet /\ UpdateBlogFind("r1", id, in)
  \/ Quiet /\ UpdateBlogWrite("r1")
  \/ Quiet /\ UpdateBlogReread("r1")
  \/ \E id \in IDs : Quiet /\ DeleteBlogFind("r1", id)
  \/ Quiet /\ DeleteBlogDelete("r1")
  \/ \E slug \in Slugs : Quiet /\ GetBlogBySlugFind("r1", slug)
  \/ Quiet /\ GetBlogBySlugIncrement("r1")
  \/ \E in \in ListInputs : Quiet /\ GetBlogsCount("r1", in)
  \/ Quiet /\ GetBlogsFetch("r1")

SpecEdit == Init /\ [][NextEdit]_vars

\* update requests on both handlers whose responses are both kept, and
\* deletion
NextRace ==
  \/ \E p \in Procs : Respond(p)
  \/ Tick
  \/ \E p \in Procs, id \in IDs, in \in WriteUpdates : UpdateBlogFind(p, id, in)
  \/ \E p \in Procs : UpdateBlogWrite(p)
  \/ \E p \in Procs : UpdateBlogReread(p)
  \/ \E id \in IDs : DeleteBlogFind("r1", id)
  \/ DeleteBlogDelete("r1")

SpecRace == Init /\ [][NextRace]_vars

\* ------------------------------------------------------------------------
\* The helpers of models/utils.go called on their own
\* ------------------------------------------------------------------------

\* longest text drawn over TextChars
MaxTextLen == 3

\* largest maxLength passed to GenerateExcerpt
MaxExcerptArg == 3

\* characters of the drawn texts: letters of both cases, a digit, a space,
\* a hyphen, the tag brackets, a newline and a control character
TextChars == {"a", "B", "1", " ", "-", "<", ">", "\n", "NUL"}

\* n words "a" separated by single spaces
WordsText(n) == [i \in 1..(2 * n - 1) |-> IF i % 2 = 1 THEN "a" ELSE " "]

\* texts given in full: the title of the first sample post, bodies of 200,
\* 201 and 400 words, two titles one character over the slug limit, and a
\* text with control characters and whitespace at both ends
FutureTitle ==
  <<"T","h","e"," ","F","u","t","u","r","e"," ","o","f"," ","W","e","b"," ","A","c","c","e","s","s","i","b","i","l","i","t","y","!">>

\* MaxSlugLen - 1 letters, a space and one more letter
OverlongTitle ==
  [i \in 1..(MaxSlugLen + 1) |-> IF i = MaxSlugLen THEN " " ELSE "a"]

SampleTexts ==
  { FutureTitle,
    WordsText(WordsPerMinute), WordsText(WordsPerMinute + 1),
    WordsText(2 * WordsPerMinute),
    [i \in 1..(MaxSlugLen + 1) |-> "a"],
    OverlongTitle,
    <<" ", "NUL", "\t", "a", "DEL", "\r", "b", "VT", "\n">> }

Texts ==
  SampleTexts \cup UNION { [1..n -> TextChars] : n \in 0..MaxTextLen }

\* a body of POST /blogs with one text in every text field
TextCreate(text) ==
  [title |-> text, content |-> text, excerpt |-> text, author |-> text,
   published |-> TRUE, featured |-> FALSE, tags |-> text,
   metaTitle |-> text, metaDesc |-> text]

\* a body of PUT /blogs/:id with one text in every text field
TextUpdate(text) ==
  [title |-> Some(text), content |-> Some(text), excerpt |-> Some(text),
   author |-> Some(text), published |-> NoneBool, featured |-> NoneBool,
   tags |-> Some(text), metaTitle |-> Some(text), metaDesc |-> Some(text)]

\* a call of a helper that has not returned: its text and maxLength
InitCall ==
  /\ InitStore
  /\ \E text \in Texts, n \in 1..MaxExcerptArg :
       req = [p \in Procs |->
                IF p = "r1"
                  THEN [op |-> "call", pc |-> "call", text |-> text,
                        maxLength |-> n]
                  ELSE Idle]

\* the call returns `out`
Return(fn, out) ==
  /\ req["r1"].pc = "call"
  /\ req' = [req EXCEPT !["r1"] =
       [op |-> fn, pc |-> "done", text |-> req["r1"].text,
        maxLength |-> req["r1"].maxLength, out |-> out]]
  /\ UNCHANGED <<blogs, nextID, now, writes, persisted>>

CallGenerateSlug == Return("GenerateSlug", GenerateSlug(req["r1"].text))

CallCalculateReadingTime ==
  Return("CalculateReadingTime", CalculateReadingTime(req["r1"].text))

CallSanitizeString == Return("SanitizeString", SanitizeString(req["r1"].text))

CallGenerateExcerpt ==
  Return("GenerateExcerpt",
         GenerateExcerpt(req["r1"].text, req["r1"].maxLength))

\* the row CreateBlog builds from a body with the text in every text field
CallNewBlog ==
  Return("NewBlog",
         NewBlog(TextCreate(req["r1"].text), GenerateSlug(req["r1"].text),
                 nextID, now))

\* the row UpdateBlog writes for a body with the text in every text field
CallApplyUpdates ==
  \E b \in blogs :
    Return("ApplyUpdates", ApplyUpdates(b, TextUpdate(req["r1"].text), now))

NextCall ==
  \/ CallGenerateSlug
  \/ CallCalculateReadingTime
  \/ CallSanitizeString
  \/ CallGenerateExcerpt
  \/ CallNewBlog
  \/ CallApplyUpdates

SpecCall == InitCall /\ [][NextCall]_vars

\* ------------------------------------------------------------------------
\* Properties of GET /blogs
\* ------------------------------------------------------------------------

\* a listing response that has just been produced
ListDone(p) == req[p].op = "list" /\ req[p].pc = "done"

\* a listing response whose count and fetch read the table as it is now
ListOnCurrent(p) ==
  /\ ListDone(p)
  /\ req[p].countedAt = writes
  /\ req[p].fetchedAt = writes

\* C1: in every listing response totalPages is the least number of pages of
\* `limit` items that hold `total` items (0 when total is 0), hasNext is
\* page < totalPages and hasPrev is page > 1; total is the number of rows
\* the query matches when the table did not change during the request.
PaginationMetadata ==
  \A p \in Procs : ListDone(p) =>
    LET m == req[p].meta
    IN /\ m.totalPages >= 0
       /\ m.totalPages * m.limit >= m.total
       /\ m.totalPages > 0 => (m.totalPages - 1) * m.limit < m.total
       /\ m.total = 0 => m.totalPages = 0
       /\ m.hasNext = (m.page < m.totalPages)
       /\ m.hasPrev = (m.page > 1)
       /\ req[p].countedAt = req[p].fetchedAt => m.total = req[p].matched

\* the fixture scenario scaled down: 3 matches at limit 2 give 2 items,
\* 2 pages, a next page and no previous page
PaginationMetadataWitness ==
  \E p \in Procs :
    /\ ListDone(p)
    /\ req[p].meta.total = 3 /\ req[p].meta.limit = 2 /\ req[p].meta.page = 1
    /\ req[p].meta.totalPages = 2
    /\ req[p].meta.hasNext /\ ~req[p].meta.hasPrev
    /\ Len(req[p].blogs) = 2

\* C2: a listing response never holds more items than its effective limit,
\* whatever other requests did between its count and its fetch.
ItemsWithinLimit ==
  \A p \in Procs : ListDone(p) => Len(req[p].blogs) <= req[p].meta.limit

\* a full page cut out of more matching rows, with a write between the
\* count and the fetch
ItemsWithinLimitWitness ==
  \E p \in Procs :
    /\ ListDone(p)
    /\ Len(req[p].blogs) = req[p].meta.limit
    /\ req[p].matched > req[p].meta.limit
    /\ req[p].fetchedAt > req[p].countedAt

\* the published parameter is absent or is no boolean
PublishedDefaulted(in) ==
  ~in.published.present \/ in.published.val \notin BoolTrueLits \cup BoolFalseLits

\* C3: when the published parameter is absent or unparsable the listing is
\* filtered to published posts: every item is published and total counts
\* published posts only.
DefaultsToPublished ==
  \A p \in Procs : (ListOnCurrent(p) /\ PublishedDefaulted(req[p].in)) =>
    /\ \A i \in 1..Len(req[p].blogs) : req[p].blogs[i].published
    /\ req[p].meta.total <= Cardinality({ b \in blogs : b.published })

\* the predicate of the listing as specified: the published filter, the
\* featured filter when its value is a boolean, and the lower-cased search
\* term as a substring of a lower-cased text column
SpecifiedPredicate(b, in) ==
  LET pub    == DefaultQuery(in.published, <<"t","r","u","e">>)
      feat   == Query(in.featured)
      search == ToLower(Query(in.search))
  IN /\ b.published = (pub \in BoolTrueLits)
     /\ feat \in BoolTrueLits => b.featured
     /\ feat \in BoolFalseLits => ~b.featured
     /\ search # <<>> =>
          \/ Contains(ToLower(b.title), search)
          \/ Contains(ToLower(b.content), search)
          \/ Contains(ToLower(b.excerpt), search)
          \/ Contains(ToLower(b.tags), search)

\* the published parameter is absent or is a boolean
PublishedGiven(in) ==
  DefaultQuery(in.published, <<"t","r","u","e">>)
    \in BoolTrueLits \cup BoolFalseLits

\* C4: on an unchanged table, total is the number of posts satisfying the
\* specified predicate and every item satisfies it (stated for requests
\* whose published parameter is absent or a boolean).
MatchesSpecifiedPredicate ==
  \A p \in Procs : (ListOnCurrent(p) /\ PublishedGiven(req[p].in)) =>
    /\ req[p].meta.total =
         Cardinality({ b \in blogs : SpecifiedPredicate(b, req[p].in) })
    /\ \A i \in 1..Len(req[p].blogs) :
         \E b \in blogs : /\ b.id = req[p].blogs[i].id
                          /\ SpecifiedPredicate(b, req[p].in)

\* a text that is no number at all: empty, or with a character that is
\* neither a digit nor a leading sign
NotANumber(s) ==
  \/ s = <<>>
  \/ \E i \in 1..Len(s) : ~IsDigit(s[i]) /\ ~(i = 1 /\ s[i] \in {"+", "-"})
  \/ s \in { <<"+">>, <<"-">> }

\* a numeral of a number below 1
BelowOne(s) ==
  \/ Len(s) >= 1 /\ \A i \in 1..Len(s) : s[i] = "0"
  \/ Len(s) >= 2 /\ s[1] = "-" /\ \A i \in 2..Len(s) : IsDigit(s[i])

\* C5: the effective page is 1 when the page parameter is absent, below 1
\* or not a number, and the supplied number otherwise.
EffectivePage ==
  \A p \in Procs : ListDone(p) =>
    LET raw == req[p].in.page
        page == req[p].meta.page
    IN /\ ~raw.present => page = 1
       /\ (raw.present /\ (NotANumber(raw.val) \/ BelowOne(raw.val))) => page = 1
       /\ \A n \in 1..(10 * 10) :
            (raw.present /\ raw.val = FormatInt(n)) => page = n
       /\ page >= 1

\* a response to a request with a negative page
EffectivePageWitness ==
  \E p \in Procs : /\ ListDone(p)
                   /\ req[p].in.page = Param(<<"-","1">>)
                   /\ req[p].meta.page = 1

\* C6: the effective limit is 10 when the limit parameter is absent, below
\* 1, above 100 or not a number, and the supplied number otherwise; it is
\* always within 1..100.
EffectiveLimit ==
  \A p \in Procs : ListDone(p) =>
    LET raw == req[p].in.limit
        limit == req[p].meta.limit
    IN /\ ~raw.present => limit = 10
       /\ (raw.present /\ (NotANumber(raw.val) \/ BelowOne(raw.val))) => limit = 10
       /\ \A n \in 1..(2 * 100) :
            (raw.present /\ raw.val = FormatInt(n)) =>
               limit = (IF n > 100 THEN 10 ELSE n)
       /\ limit \in 1..100

\* a response to a request with a limit above 100
EffectiveLimitWitness ==
  \E p \in Procs : /\ ListDone(p)
                   /\ req[p].in.limit = Param(<<"1","0","1">>)
                   /\ req[p].meta.limit = 10

\* the rows the query of a listing request matches now
Matching(in) == { b \in blogs : ListWhere(b, in) }

\* C7: the items of a listing response are the rows at positions
\* (page-1)*limit+1 .. page*limit of the matching rows in descending order
\* of creation time: as many as that range holds, each the summary of a
\* matching row, none twice, newest first, and the i-th item has at most
\* (page-1)*limit+i-1 matching rows strictly newer than it and at least
\* (page-1)*limit+i matching rows at least as new.
PageSlice ==
  \A p \in Procs : ListOnCurrent(p) =>
    LET items == req[p].blogs
        m     == req[p].meta
        M     == Matching(req[p].in)
        skip  == (m.page - 1) * m.limit
    IN /\ Len(items) = Max(0, Min(m.limit, Cardinality(M) - skip))
       /\ \A i \in 1..Len(items) :
            /\ \E b \in M : items[i] = ToResponse(b, FALSE)
            /\ Cardinality({ b \in M : b.createdAt > items[i].createdAt })
                 <= skip + i - 1
            /\ Cardinality({ b \in M : b.createdAt >= items[i].createdAt })
                 >= skip + i
       /\ \A i, j \in 1..Len(items) :
            /\ i < j => items[i].createdAt >= items[j].createdAt
            /\ i # j => items[i].id # items[j].id

\* the second page of one: the older of three matching rows created at
\* different times
PageSliceWitness ==
  \E p \in Procs :
    /\ ListOnCurrent(p)
    /\ req[p].meta.page = 2 /\ req[p].meta.limit = 1
    /\ Len(req[p].blogs) = 1
    /\ Cardinality(Matching(req[p].in)) >= 3
    /\ \E b \in Matching(req[p].in) : b.createdAt > req[p].blogs[1].createdAt
    /\ \E b \in Matching(req[p].in) : b.createdAt < req[p].blogs[1].createdAt

\* C8: two listing requests with the same query string, both served from
\* the same unchanged table, return the same items in the same order and
\* the same metadata.
SameSnapshotSameResponse ==
  \A p, q \in Procs :
    ( /\ ListDone(p) /\ ListDone(q)
      /\ req[p].in = req[q].in
      /\ req[p].countedAt = req[p].fetchedAt
      /\ req[q].countedAt = req[q].fetchedAt
      /\ req[p].countedAt = req[q].countedAt )
    => /\ req[p].blogs = req[q].blogs
       /\ req[p].meta = req[q].meta

\* ------------------------------------------------------------------------
\* Properties of GET /blogs/:slug
\* ------------------------------------------------------------------------

\* handler p takes up a request for a slug in this step
StartsGet(p) == req[p].pc = "idle" /\ req'[p].op = "get"

\* C9: a request for the slug of an existing unpublished post is answered
\* 404 at once and leaves every row, the view count included, as it was.
UnpublishedNotFoundStep ==
  \A p \in Procs :
    (StartsGet(p) /\ \E b \in blogs : b.slug = req'[p].slug /\ ~b.published)
    => /\ req'[p].pc = "done"
       /\ req'[p].status = 404
       /\ blogs' = blogs

UnpublishedNotFound == [][UnpublishedNotFoundStep]_vars

\* a 404 for the slug of a stored draft
UnpublishedNotFoundWitness ==
  \E p \in Procs :
    /\ req[p].op = "get" /\ req[p].pc = "done" /\ req[p].status = 404
    /\ \E b \in blogs : b.slug = req[p].slug /\ ~b.published

\* no view count goes down in a step
ViewCountMonotoneStep ==
  \A b \in blogs : \A c \in blogs' :
    c.id = b.id => c.viewCount >= b.viewCount

\* every stored view count is the number of increments persisted for the post
ViewCountExact == \A b \in blogs : b.viewCount = persisted[b.id]

\* C10: a post's view count never decreases, and it is exactly the number
\* of detail requests for the post whose increment was persisted, in every
\* interleaving of the requests.
ViewCountNoLostIncrement ==
  []ViewCountExact /\ [][ViewCountMonotoneStep]_vars

\* a post viewed twice, the later request having read the row before the
\* earlier increment was written
ViewCountWitness ==
  \E p \in Procs : \E b \in blogs :
    /\ req[p].op = "get" /\ req[p].pc = "done" /\ req[p].status = 200
    /\ req[p].incremented
    /\ b.id = req[p].body.id
    /\ b.viewCount = 2
    /\ req[p].body.viewCount = 0

\* C11: when the view-count statement of a request persists nothing although
\* the row it read is still stored, the response is still 200 with the full
\* detail view of the row as the lookup read it.
IncrementFailureSwallowedStep ==
  \A p \in Procs :
    ( /\ req[p].op = "get" /\ req[p].pc = "incr"
      /\ req'[p].pc = "done"
      /\ blogs' = blogs )
    => /\ req'[p].status = 200
       /\ req'[p].body = ToResponse(req[p].blog, TRUE)
       /\ req'[p].body.content = req[p].blog.content

IncrementFailureSwallowed == [][IncrementFailureSwallowedStep]_vars

\* a 200 response for a post that is still stored and whose view count the
\* request did not raise
IncrementFailureSwallowedWitness ==
  \E p \in Procs :
    /\ req[p].op = "get" /\ req[p].pc = "done" /\ req[p].status = 200
    /\ ~req[p].incremented
    /\ \E b \in blogs : b.id = req[p].body.id /\ b.viewCount = req[p].body.viewCount

\* ------------------------------------------------------------------------
\* Properties of POST /blogs, PUT /blogs/:id and DELETE /blogs/:id
\* ------------------------------------------------------------------------

\* a create request that has been answered
CreateDone(p) == req[p].op = "create" /\ req[p].pc = "done"

\* C12: a create request whose body has an empty title or author, a
\* content shorter than 10 characters, or a title, author, excerpt, meta
\* title or meta description over its length limit is answered 400, and no
\* row is stored for it.
InvalidCreateRejected ==
  \A p \in Procs :
    (CreateDone(p) /\ ~ValidCreate(req[p].in)) => req[p].status = 400

\* C13: a create request that follows the successful creation of a post
\* with the same title is answered 201, and the two posts have different
\* slugs, whatever the table holds and whatever the clock reads.
SameTitleCreatesSucceed ==
  \A p \in Procs :
    ( /\ CreateDone(p)
      /\ \E b \in blogs : /\ b.id = nextID - 1
                           /\ b.id > Len(SampleBlogs)
                           /\ b.title = SanitizeString(req[p].in.title) )
    => /\ req[p].status = 201
       /\ \A a, b \in blogs :
            (a.id # b.id /\ a.title = b.title) => a.slug # b.slug

\* C14: at every moment, whatever creates, updates and deletes have run
\* and however they interleaved, no two stored posts have the same slug.
SlugsUnique ==
  \A a, b \in blogs : a.id # b.id => a.slug # b.slug

\* a create request answered 500 because a concurrent request stored the
\* slug between its lookup and its insert
SlugsUniqueWitness ==
  \E p \in Procs :
    /\ CreateDone(p) /\ req[p].status = 500
    /\ \E b \in blogs : b.slug = GenerateSlug(req[p].in.title)
    /\ \A a, b \in blogs :
         (a.title = b.title /\ a.id > Len(SampleBlogs) /\ b.id > Len(SampleBlogs))
         => a = b

\* a slug of at most 100 lowercase letters, digits and single hyphens that
\* neither starts nor ends with a hyphen
WellFormedSlug(slug) ==
  /\ Len(slug) <= MaxSlugLen
  /\ \A i \in 1..Len(slug) :
       slug[i] \in Range(LowerSeq) \cup Range(DigitSeq) \cup {"-"}
  /\ \A i \in 1..(Len(slug) - 1) : ~(slug[i] = "-" /\ slug[i + 1] = "-")
  /\ slug # <<>> => (slug[1] # "-" /\ slug[Len(slug)] # "-")

\* C15: the slug of every post a create request stored or an update request
\* wrote is well-formed, also with a collision suffix and for a title
\* without letters or digits.
StoredSlugsWellFormed ==
  \A b \in blogs :
    (b.id > Len(SampleBlogs) \/ b.updatedAt # b.createdAt)
    => WellFormedSlug(b.slug)

\* C16: every stored post has a publish timestamp exactly when it is
\* published: publishing sets it, at creation or by an update, and
\* unpublishing clears it.
PublishedAtIffPublished ==
  \A b \in blogs : (b.publishedAt # NoTime) <=> b.published

\* an update request that has been answered
UpdateDone(p) == req[p].op = "update" /\ req[p].pc = "done"

\* C17: the post a successful create request stored, and the post a
\* successful update request with a content wrote, has the reading time
\* CalculateReadingTime gives for its stored content.
ReadingTimeFollowsContent ==
  \A p \in Procs :
    ( \/ CreateDone(p) /\ req[p].status = 201
      \/ UpdateDone(p) /\ req[p].status = 200 /\ req[p].in.content.present )
    => \A b \in blogs :
         b.id = req[p].body.id
         => b.readingTime = CalculateReadingTime(b.content)

\* the text and flag fields a request can set
TextFields == {"title", "content", "excerpt", "author", "tags", "metaTitle", "metaDesc"}

FlagFields == {"published", "featured"}

\* handler p executes the UPDATE statement of an update request in this step
UpdateWrites(p) ==
  /\ req[p].op = "update" /\ req[p].pc = "write"
  /\ req'[p].pc # "write"

\* C18: the UPDATE statement of an update request leaves every other row
\* as it was, keeps the id, the view count and the creation time of its row,
\* keeps every text and flag field the request does not supply, and sets a
\* text field supplied as the empty string to the empty string.
SparseUpdateStep ==
  \A p \in Procs :
    UpdateWrites(p) =>
      LET in == req[p].in
      IN \A b \in blogs :
           IF b.id # req[p].blogID
             THEN b \in blogs'
             ELSE \E n \in blogs' :
                    /\ n.id = b.id
                    /\ n.viewCount = b.viewCount
                    /\ n.createdAt = b.createdAt
                    /\ \A f \in TextFields \cup FlagFields :
                         ~in[f].present => n[f] = b[f]
                    /\ \A f \in TextFields :
                         ( /\ in[f].present /\ in[f].val = <<>>
                           /\ req'[p].pc = "reread" )
                         => n[f] = <<>>

SparseUpdate == [][SparseUpdateStep]_vars

\* an update that supplied the empty string as content, answered with the
\* row it wrote: content empty, title and excerpt kept, views kept
SparseUpdateWitness ==
  \E p \in Procs :
    /\ UpdateDone(p) /\ req[p].status = 200
    /\ req[p].in.content.present /\ req[p].in.content.val = <<>>
    /\ ~req[p].in.title.present
    /\ req[p].body.content = <<>>
    /\ req[p].body.title # <<>>
    /\ req[p].body.excerpt # <<>>
    /\ req[p].body.viewCount > 0

\* C19: the UPDATE statement of an update request with a title T, for a
\* row that is still stored, either sets the row's slug to GenerateSlug(T)
\* as it is, or, when another row holds that slug, fails: the request is
\* answered 500 and the table is left as it was.
TitleUpdateStep ==
  \A p \in Procs :
    ( /\ UpdateWrites(p)
      /\ req[p].in.title.present
      /\ \E b \in blogs : b.id = req[p].blogID )
    => LET slug == GenerateSlug(req[p].in.title.val)
       IN IF \E o \in blogs : o.id # req[p].blogID /\ o.slug = slug
            THEN /\ req'[p].pc = "done"
                 /\ req'[p].status = 500
                 /\ blogs' = blogs
            ELSE /\ req'[p].pc = "reread"
                 /\ \E n \in blogs' : n.id = req[p].blogID /\ n.slug = slug

TitleUpdate == [][TitleUpdateStep]_vars

\* an update with a title whose slug another post holds, answered 500, the
\* row still with its old title and slug
TitleUpdateWitness ==
  \E p \in Procs :
    /\ UpdateDone(p) /\ req[p].status = 500
    /\ req[p].in.title.present
    /\ \E b, o \in blogs :
         /\ b.id = req[p].id /\ o.id # b.id
         /\ o.slug = GenerateSlug(req[p].in.title.val)
         /\ b.slug # o.slug
         /\ b.title # SanitizeString(req[p].in.title.val)

\* handler p takes up a request of the kind op in this step
Starts(p, op) == req[p].pc = "idle" /\ req'[p].op = op

\* ids are issued in order by the inserts and rows leave the table by a
\* DELETE only: an issued id without a row is the id of a deleted post
Deleted(id) == id \in 1..(nextID - 1) /\ ByID(id) = {}

\* C20: a delete request for an id without a row is answered 404 and
\* changes nothing; the DELETE statement of a request answered 204 leaves no
\* row with the id; no step, of an update running at the same time or of
\* any later request, brings a row with a deleted id back; a listing holds
\* only rows stored when it is fetched; and a request for a deleted post
\* that starts after the delete is answered 404, be it a read by a slug no
\* stored post has, an update or a delete.
DeletedStaysDeletedStep ==
  /\ \A id \in 1..(nextID - 1) :
       Deleted(id) => \A b \in blogs' : b.id # id
  /\ \A p \in Procs :
       /\ (Starts(p, "delete") /\ ByID(req'[p].id) = {})
            => /\ req'[p].pc = "done" /\ req'[p].status = 404
               /\ blogs' = blogs
       /\ (req[p].op = "delete" /\ req[p].pc = "delete" /\ req'[p].pc = "done")
            => /\ req'[p].status = 204
               /\ \A b \in blogs' : b.id # req[p].id
               /\ \A b \in blogs : b.id # req[p].id => b \in blogs'
       /\ (Starts(p, "update") /\ ByID(req'[p].id) = {})
            => /\ req'[p].pc = "done" /\ req'[p].status = 404
               /\ blogs' = blogs
       /\ Starts(p, "get")
            => IF \E b \in blogs : b.slug = req'[p].slug /\ b.published
                 THEN req'[p].pc = "incr" /\ req'[p].blog \in blogs
                 ELSE req'[p].pc = "done" /\ req'[p].status = 404
       /\ (req[p].op = "list" /\ req[p].pc = "fetch" /\ req'[p].pc = "done")
            => \A i \in 1..Len(req'[p].blogs) :
                 \E b \in blogs : b.id = req'[p].blogs[i].id

DeletedStaysDeleted == [][DeletedStaysDeletedStep]_vars

\* an update that found its post, lost it to a delete running at the same
\* time, and was answered 500 with the post still gone
DeletedStaysDeletedWitness ==
  \E p \in Procs :
    /\ UpdateDone(p) /\ req[p].status = 500
    /\ Deleted(req[p].id)

\* ------------------------------------------------------------------------
\* Further properties of GET /blogs and of the helpers
\* ------------------------------------------------------------------------

\* the difference of two numbers
Dist(a, b) == IF a >= b THEN a - b ELSE b - a

\* C21: a listing request with w row-changing statements of other requests
\* between its count and its fetch is answered 200 with a page of at most
\* `limit` items, each the summary of a row that matches the query in the
\* table the fetch read, and its total is within w of the number of rows
\* that match in that table.
BoundedSkew ==
  \A p \in Procs : ListDone(p) =>
    /\ req[p].status = 200
    /\ Len(req[p].blogs) <= req[p].meta.limit
    /\ \A i \in 1..Len(req[p].blogs) :
         \E b \in blogs : /\ ListWhere(b, req[p].in)
                          /\ req[p].blogs[i] = ToResponse(b, FALSE)
    /\ req[p].matched = Cardinality(Matching(req[p].in))
    /\ Dist(req[p].meta.total, req[p].matched)
         <= req[p].fetchedAt - req[p].countedAt

\* a listing whose total is off by the two writes that came between its
\* count and its fetch
BoundedSkewWitness ==
  \E p \in Procs :
    /\ ListDone(p)
    /\ req[p].fetchedAt - req[p].countedAt = 2
    /\ Dist(req[p].meta.total, req[p].matched) = 2

\* a helper call, or the building of a row, has returned
Returned(fn) == req["r1"].op = fn /\ req["r1"].pc = "done"

\* the control characters other than newline, tab and carriage return
Removed == ControlChars \ {"\n", "\t", "\r"}

\* the characters of `text` outside Removed, in their order: the k-th is the
\* one with k - 1 such characters before it
Kept(text) ==
  LET idx == { i \in 1..Len(text) : text[i] \notin Removed }
  IN IF idx = 1..Len(text) THEN text
     ELSE [k \in 1..Cardinality(idx) |->
            text[CHOOSE i \in idx :
                   Cardinality({ j \in idx : j < i }) = k - 1]]

\* t is s without its leading and trailing whitespace
IsTrimOf(t, s) ==
  \E lo \in 0..Len(s) :
    /\ \A i \in 1..lo : s[i] \in WhiteSpace
    /\ \A i \in (lo + Len(t) + 1)..Len(s) : s[i] \in WhiteSpace
    /\ lo + Len(t) <= Len(s)
    /\ t = [i \in 1..Len(t) |-> s[lo + i]]
    /\ t # <<>> => t[1] \notin WhiteSpace /\ t[Len(t)] \notin WhiteSpace

\* no removed control character, no whitespace at either end
Clean(t) ==
  /\ \A i \in 1..Len(t) : t[i] \notin Removed
  /\ t # <<>> => t[1] \notin WhiteSpace /\ t[Len(t)] \notin WhiteSpace

\* C22: SanitizeString returns the characters of its input outside the
\* removed control characters, in order, trimmed of surrounding whitespace;
\* and every text field of the row CreateBlog builds or UpdateBlog writes
\* from a body has no removed control character and no whitespace at
\* either end.
StoredTextSanitized ==
  /\ Returned("SanitizeString") =>
        /\ IsTrimOf(req["r1"].out, Kept(req["r1"].text))
        /\ Clean(req["r1"].out)
  /\ Returned("NewBlog") \/ Returned("ApplyUpdates") =>
        \A f \in TextFields : Clean(req["r1"].out[f])

StoredTextSanitizedWitness ==
  /\ Returned("NewBlog")
  /\ req["r1"].text = <<" ", "NUL", "\t", "a", "DEL", "\r", "b", "VT", "\n">>
  /\ \A f \in TextFields \ {"excerpt"} : req["r1"].out[f] = <<"a", "\r", "b">>

\* the text GenerateExcerpt truncates: tags and newlines replaced by spaces,
\* runs of whitespace collapsed, the ends trimmed
Cleaned(content) ==
  LET c1 == stripHTMLTags(content)
      c2 == [i \in 1..Len(c1) |-> IF c1[i] = "\n" THEN " " ELSE c1[i]]
  IN TrimSpace(CollapseSpace(c2))

\* the first k characters of t do not end inside a word
AtWordBoundary(t, k) ==
  k = 0 \/ k >= Len(t) \/ t[k] = " " \/ t[k + 1] = " "

\* C23: GenerateExcerpt(content, maxLength) with maxLength > 0 returns the
\* cleaned text when it has at most maxLength characters, and otherwise a
\* prefix of at most maxLength characters that ends at a word boundary of
\* the cleaned text, followed by "...".
ExcerptEndsAtWordBoundary ==
  Returned("GenerateExcerpt") =>
    LET t == Cleaned(req["r1"].text)
        out == req["r1"].out
    IN IF Len(t) <= req["r1"].maxLength
         THEN out = t
         ELSE \E k \in 0..req["r1"].maxLength :
                /\ out = Take(t, k) \o <<".", ".", ".">>
                /\ AtWordBoundary(t, k)

\* the lower-cased title with every run of other characters that lies
\* between two characters of a-z0-9 replaced by one hyphen, and the runs at
\* the ends left out
Hyphenated(title) ==
  LET l == ToLower(title)
      n == Len(l)
      inner(i) == /\ \E j \in 1..(i - 1) : IsSlugChar(l[j])
                  /\ i < n
                  /\ IsSlugChar(l[i + 1])
  IN SelectSeq([i \in 1..n |-> IF IsSlugChar(l[i]) THEN l[i]
                                 ELSE IF inner(i) THEN "-"
                                 ELSE Dropped],
               LAMBDA c : c # Dropped)

\* Hyphenated(title) cut to MaxSlugLen characters, without a trailing hyphen
SlugOf(title) ==
  LET h == Hyphenated(title)
  IN IF Len(h) <= MaxSlugLen THEN h
     ELSE IF h[MaxSlugLen] = "-" THEN Take(h, MaxSlugLen - 1)
     ELSE Take(h, MaxSlugLen)

\* C24: GenerateSlug returns the lower-cased title with each maximal run of
\* characters outside a-z0-9 replaced by one hyphen, without leading and
\* trailing hyphens, cut to at most MaxSlugLen characters with no trailing
\* hyphen; the title "The Future of Web Accessibility!" gives
\* "the-future-of-web-accessibility"; and GenerateSlug of the result is the
\* result.
SlugCanonical ==
  Returned("GenerateSlug") =>
    LET out == req["r1"].out
    IN /\ out = SlugOf(req["r1"].text)
       /\ Len(out) <= MaxSlugLen
       /\ out # <<>> => out[1] # "-" /\ out[Len(out)] # "-"
       /\ GenerateSlug(out) = out
       /\ req["r1"].text = FutureTitle =>
            out = <<"t","h","e","-","f","u","t","u","r","e","-","o","f","-","w","e","b","-","a","c","c","e","s","s","i","b","i","l","i","t","y">>

SlugCanonicalWitness ==
  /\ Returned("GenerateSlug")
  /\ req["r1"].text = OverlongTitle
  /\ req["r1"].out = [i \in 1..(MaxSlugLen - 1) |-> "a"]

\* the number of whitespace-separated words of s: the positions where a
\* word ends
WordCount(s) ==
  Cardinality({ i \in 1..Len(s) :
                  /\ s[i] \notin WhiteSpace
                  /\ (i = Len(s) \/ s[i + 1] \in WhiteSpace) })

\* the least k >= 1 with WordsPerMinute * k >= w
Minutes(w) ==
  CHOOSE k \in 1..(w + 1) :
    /\ WordsPerMinute * k >= w
    /\ \A j \in 1..(k - 1) : WordsPerMinute * j < w

\* C25: CalculateReadingTime returns 0 for the empty string and otherwise
\* max(1, ceil(w / WordsPerMinute)), w the number of whitespace-separated
\* words after tags are replaced by spaces; bodies of 200, 201 and 400 words
\* give 1, 2 and 2.
ReadingTimeCeil ==
  Returned("CalculateReadingTime") =>
    LET text == req["r1"].text
        out == req["r1"].out
    IN /\ text = <<>> => out = 0
       /\ text # <<>> => out = Minutes(WordCount(stripHTMLTags(text)))
       /\ text = WordsText(WordsPerMinute) => out = 1
       /\ text = WordsText(WordsPerMinute + 1) => out = 2
       /\ text = WordsText(2 * WordsPerMinute) => out = 2

ReadingTimeCeilWitness ==
  /\ Returned("CalculateReadingTime")
  /\ req["r1"].text = WordsText(2 * WordsPerMinute)
  /\ WordCount(req["r1"].text) = 2 * WordsPerMinute
  /\ req["r1"].out = 2

\* handler p has answered a request for one post with the post in the body
DetailDone(p) ==
  /\ req[p].op \in {"get", "create", "update"}
  /\ req[p].pc = "done"
  /\ req[p].status \in {200, 201}

\* C26: every item of a listing response is without content, meta title and
\* meta description, whatever the row holds; the body of a successful
\* GetBlogBySlug, CreateBlog or UpdateBlog response holds the content, meta
\* title and meta description of the stored row.
SummaryOmitsContent ==
  \A p \in Procs :
    /\ ListDone(p) =>
          \A i \in 1..Len(req[p].blogs) :
            /\ req[p].blogs[i].content = <<>>
            /\ req[p].blogs[i].metaTitle = <<>>
            /\ req[p].blogs[i].metaDesc = <<>>
    /\ DetailDone(p) =>
          \E b \in blogs :
            /\ b.id = req[p].body.id
            /\ req[p].body.content = b.content
            /\ req[p].body.metaTitle = b.metaTitle
            /\ req[p].body.metaDesc = b.metaDesc

SummaryOmitsContentWitness ==
  \E p \in Procs :
    /\ ListDone(p)
    /\ \E i \in 1..Len(req[p].blogs), b \in blogs :
         /\ b.id = req[p].blogs[i].id
         /\ b.content # <<>> /\ b.metaTitle # <<>> /\ b.metaDesc # <<>>
         /\ req[p].blogs[i].content = <<>>

\* C27: a listing response with hasPrev = true has a previous page within
\* the result set: page - 1 is between 1 and totalPages.
HasPrevWithinPages ==
  \A p \in Procs :
    ListDone(p) /\ req[p].meta.hasPrev =>
      /\ 1 <= req[p].meta.page - 1
      /\ req[p].meta.page - 1 <= req[p].meta.totalPages

\* the ids of the items of handler p's listing response
PageIDs(p) == { req[p].blogs[i].id : i \in 1..Len(req[p].blogs) }

\* p and q have answered listing requests with the same filters and limit,
\* all four statements served from the same unchanged table
SameStorePages(p, q) ==
  /\ ListDone(p) /\ ListDone(q)
  /\ [req[p].in EXCEPT !.page = Absent] = [req[q].in EXCEPT !.page = Absent]
  /\ req[p].countedAt = req[p].fetchedAt
  /\ req[q].countedAt = req[q].fetchedAt
  /\ req[p].countedAt = req[q].countedAt

\* C28: for one unchanged table and the same filters and limit, a page
\* before the last holds exactly `limit` items, a page after totalPages is
\* empty, two different pages share no post, and pages 1..totalPages taken
\* together hold exactly the matching posts.
PagesPartition ==
  /\ \A p \in Procs :
       ListDone(p) /\ req[p].countedAt = req[p].fetchedAt =>
         /\ req[p].meta.page < req[p].meta.totalPages =>
               Len(req[p].blogs) = req[p].meta.limit
         /\ req[p].meta.page > req[p].meta.totalPages => req[p].blogs = <<>>
         /\ Cardinality(PageIDs(p)) = Len(req[p].blogs)
  /\ \A p, q \in Procs :
       SameStorePages(p, q) /\ req[p].meta.page # req[q].meta.page =>
         /\ PageIDs(p) \cap PageIDs(q) = {}
         /\ {req[p].meta.page, req[q].meta.page} = 1..req[p].meta.totalPages =>
               PageIDs(p) \cup PageIDs(q) =
                 { b.id : b \in Matching(req[p].in) }

\* C29: the UPDATE statement of an update request whose title equals the
\* stored title of the row leaves the row's slug as it was.
SameTitleKeepsSlugStep ==
  \A p \in Procs :
    \A b \in blogs :
      ( /\ UpdateWrites(p)
        /\ b.id = req[p].blogID
        /\ req[p].in.title.present
        /\ req[p].in.title.val = b.title )
      => \A n \in blogs' : n.id = b.id => n.slug = b.slug

SameTitleKeepsSlug == [][SameTitleKeepsSlugStep]_vars

\* the fields an update body supplies
Supplied(in) == { f \in TextFields \cup FlagFields : in[f].present }

\* row b holds the values the update body `in` asks for
HoldsValues(b, in) ==
  /\ \A f \in Supplied(in) :
       b[f] = IF f \in TextFields THEN SanitizeString(in[f].val) ELSE in[f].val
  /\ in.title.present => b.slug = GenerateSlug(in.title.val)

\* p and q have both answered 200 to update requests for the same post
\* whose bodies supply disjoint fields
DisjointUpdatesDone(p, q) ==
  /\ p # q
  /\ UpdateDone(p) /\ UpdateDone(q)
  /\ req[p].status = 200 /\ req[q].status = 200
  /\ req[p].id = req[q].id
  /\ Supplied(req[p].in) # {} /\ Supplied(req[q].in) # {}
  /\ Supplied(req[p].in) \cap Supplied(req[q].in) = {}

\* C30: when two update requests for the same post with disjoint fields
\* have both been answered 200, whatever the order of their reads, writes
\* and re-reads, the stored post holds the values of both.
DisjointUpdatesKept ==
  \A p, q \in Procs :
    DisjointUpdatesDone(p, q) =>
      \E b \in blogs : /\ b.id = req[p].id
                        /\ HoldsValues(b, req[p].in)
                        /\ HoldsValues(b, req[q].in)

\* both handlers read the same row, with neither request's values, before
\* either wrote
DisjointUpdatesKeptWitness ==
  \E p, q \in Procs :
    /\ DisjointUpdatesDone(p, q)
    /\ req[p].blog = req[q].blog
    /\ ~HoldsValues(req[p].blog, req[p].in)
    /\ ~HoldsValues(req[p].blog, req[q].in)
    /\ \E b \in blogs : /\ b.id = req[p].id
                          /\ HoldsValues(b, req[p].in)
                          /\ HoldsValues(b, req[q].in)

====
